---------------------------- MODULE Spec2Model ----------------------------
(***************************************************************************)
(* A model of the three browser-side services of the repository:           *)
(*   - ErrorService   (js/error-service.js, and its boot in init-error.js) *)
(*   - PDFService     (js/init-error.js)                                   *)
(*   - LanguageService(js/init-error.js)                                   *)
(* Each service has its own next-state relation and specification; the     *)
(* variables of the other services stay at their initial values.           *)
(***************************************************************************)
EXTENDS Naturals, Sequences, FiniteSets, TLC

VARIABLES
    \* ---- ErrorService ----
    stage,          \* which boot scripts have run
    isInitialized,  \* ErrorService.isInitialized
    errorHandlers,  \* ErrorService.errorHandlers (a Map: type -> handler)
    regHistory,     \* ghost: every successful registerHandler call, in order
    pageRegs,       \* ghost: number of registerHandler calls made by the page
    lastRegister,   \* outcome of the last registerHandler call
    toasts,         \* number of .error-toast nodes in document.body
    lastCall,       \* what the last handleError call did
    \* ---- LanguageService ----
    currentLang,        \* LanguageService.currentLang
    translations,       \* LanguageService.translations: per language, loaded or not
    observers,          \* LanguageService.observers
    documentLang,       \* document.documentElement.lang
    preferredLanguage,  \* localStorage['preferredLanguage']
    navigatorLanguage,  \* navigator.language, as its subtags
    tagsResolve,        \* whether every tagged key of the page resolves to a string
    initCall,           \* the initialize() call
    pendingInit,        \* languages whose fetch, issued by initialize, is in flight
    pendingSet,         \* per language, the setLanguage calls awaiting its fetch
    lastSet,            \* what the last setLanguage call that ended did
    domRewrite,         \* what the last updateDOMTranslations run saw
    \* ---- LanguageService.translate ----
    dictionary,         \* this.translations[this.currentLang]
    lastTranslate,      \* what the last translate call did
    \* ---- PDFService ----
    pdfCall             \* the generatePDF or savePDF call under way, or the last

errVars == <<stage, isInitialized, errorHandlers, regHistory, pageRegs, lastRegister,
             toasts, lastCall>>

langVars == <<currentLang, translations, observers, documentLang,
              preferredLanguage, navigatorLanguage, tagsResolve, initCall,
              pendingInit, pendingSet, lastSet, domRewrite>>

trVars == <<dictionary, lastTranslate>>

pdfVars == <<pdfCall>>

vars == <<errVars, langVars, trVars, pdfVars>>

(***************************************************************************)
(* Bounds of the model.                                                    *)
(***************************************************************************)
MaxRegistrations == 2   \* registerHandler calls made by the page after boot
MaxToasts == 2          \* toasts on screen at once
MaxPendingCalls == 1    \* setLanguage calls awaiting a dictionary at once
MaxObservers == 2       \* length of the observer list
MaxKeyLen == 3          \* characters of a translation key

(***************************************************************************)
(*                             ErrorService                                *)
(***************************************************************************)
NoHandler == "none"
DefaultHandler == "defaultHandler"

\* The error types: the two hook labels and the two the boot registers.
ErrorTypes == {"global", "promise", "api", "storage"}
\* The types the page registers handlers for: one the boot has registered,
\* one it has not.
PageTypes == {"api", "promise"}

\* Functions given to registerHandler: the four the boot scripts register
\* (each shows error.message in an alert), and two of the page: one that
\* returns whatever it is given and one that throws whatever it is given.
AlertHandlers == {"apiAlert1", "storageAlert1", "apiAlert2", "storageAlert2"}
PageHandlers == {"quiet", "faulty"}
Functions == AlertHandlers \cup PageHandlers
NotAFunction == "notAFunction"

\* Error values: an Error object, another value on which .message reads as
\* undefined (an object, a string, 0, false), and the two nullish values, on
\* which reading .message throws a TypeError.
ErrorValues == {"Error", "NonError", "null", "undefined"}
Nullish == {"null", "undefined"}

\* Whether calling the function with the error throws.
HandlerThrows(h, error) ==
    CASE h = DefaultHandler -> error \in Nullish
      [] h \in AlertHandlers -> error \in Nullish
      [] h = "quiet" -> FALSE
      [] OTHER -> TRUE

NoCall == [route |-> "none", regsBefore |-> 0,
           type |-> "none", error |-> "none", invoked |-> << >>,
           handlerErrorLogged |-> FALSE, logged |-> FALSE,
           outcome |-> "none"]

\* Map.get(type) || this.defaultHandler
Lookup(handlers, type) ==
    IF handlers[type] # NoHandler THEN handlers[type] ELSE DefaultHandler

\* logError(type, error): reads error.message and error.stack.
LogErrorThrows(error) == error \in Nullish

\* handleError(type, error) as one synchronous call: the handlers invoked in
\* order, whether the catch block logged a handler failure, whether logError
\* completed, and whether the call returned or threw.
HandleErrorCall(handlers, type, error) ==
    LET handler == Lookup(handlers, type)
        first == <<handler>>
    IN  IF ~HandlerThrows(handler, error)
        THEN [type |-> type, error |-> error, invoked |-> first,
              handlerErrorLogged |-> FALSE,
              logged |-> ~LogErrorThrows(error),
              outcome |-> IF LogErrorThrows(error) THEN "threw" ELSE "returned"]
        ELSE IF HandlerThrows(DefaultHandler, error)
        THEN [type |-> type, error |-> error,
              invoked |-> Append(first, DefaultHandler),
              handlerErrorLogged |-> TRUE, logged |-> FALSE,
              outcome |-> "threw"]
        ELSE [type |-> type, error |-> error,
              invoked |-> Append(first, DefaultHandler),
              handlerErrorLogged |-> TRUE,
              logged |-> ~LogErrorThrows(error),
              outcome |-> IF LogErrorThrows(error) THEN "threw" ELSE "returned"]

\* The toasts a call appends: one per defaultHandler run that did not throw.
RECURSIVE ToastsAdded(_, _)
ToastsAdded(invoked, error) ==
    IF invoked = << >> THEN 0
    ELSE (IF Head(invoked) = DefaultHandler /\ ~HandlerThrows(DefaultHandler, error)
          THEN 1 ELSE 0) + ToastsAdded(Tail(invoked), error)

\* A Map.set that keeps an entry already there (the first registration wins).
MapSetKeepsFirst(handlers, type, h) ==
    IF handlers[type] # NoHandler THEN handlers ELSE [handlers EXCEPT ![type] = h]

\* Map.set(errorType, handler)
MapSet(handlers, type, h) == [handlers EXCEPT ![type] = h]

InitError ==
    /\ stage = "constructed"
    /\ isInitialized = FALSE
    /\ errorHandlers = [t \in ErrorTypes |-> NoHandler]
    /\ regHistory = << >>
    /\ pageRegs = 0
    /\ lastRegister = "none"
    /\ toasts = 0
    /\ lastCall = NoCall

\* initialize(): returns at once when the flag is set; otherwise installs the
\* two hooks and sets it.
InitializeHooks(flag) == IF flag THEN flag ELSE TRUE

\* registerHandler(errorType, handler) on the given registry.
Registered(handlers, type, h) ==
    IF h = NotAFunction THEN handlers ELSE MapSet(handlers, type, h)

\* error-service.js, lines 117-141: initialize, register the 'api' and the
\* 'storage' handler, publish window.errorService.
ErrorServiceScript ==
    /\ stage = "constructed"
    /\ stage' = "published"
    /\ isInitialized' = InitializeHooks(isInitialized)
    /\ errorHandlers' = Registered(Registered(errorHandlers, "api", "apiAlert1"),
                                   "storage", "storageAlert1")
    /\ regHistory' = regHistory \o <<[type |-> "api", handler |-> "apiAlert1"],
                                     [type |-> "storage", handler |-> "storageAlert1"]>>
    /\ lastRegister' = "ok"
    /\ UNCHANGED <<pageRegs, toasts, lastCall, langVars, trVars, pdfVars>>

\* init-error.js, lines 2-43: window.errorService exists, so no stub is made;
\* initialize again (a no-op), register the 'api' and 'storage' handlers again.
InitErrorScript ==
    /\ stage = "published"
    /\ stage' = "customised"
    /\ isInitialized' = InitializeHooks(isInitialized)
    /\ errorHandlers' = Registered(Registered(errorHandlers, "api", "apiAlert2"),
                                   "storage", "storageAlert2")
    /\ regHistory' = regHistory \o <<[type |-> "api", handler |-> "apiAlert2"],
                                     [type |-> "storage", handler |-> "storageAlert2"]>>
    /\ lastRegister' = "ok"
    /\ UNCHANGED <<pageRegs, toasts, lastCall, langVars, trVars, pdfVars>>

\* registerHandler(errorType, handler), called by the page.
RegisterHandler(type, h) ==
    /\ stage # "constructed"
    /\ pageRegs < MaxRegistrations
    /\ pageRegs' = pageRegs + 1
    /\ errorHandlers' = Registered(errorHandlers, type, h)
    /\ IF h = NotAFunction
       THEN /\ lastRegister' = "threw"
            /\ UNCHANGED regHistory
       ELSE /\ lastRegister' = "ok"
            /\ regHistory' = Append(regHistory, [type |-> type, handler |-> h])
    /\ UNCHANGED <<stage, isInitialized, toasts, lastCall, langVars, trVars, pdfVars>>

\* handleError(type, error), by whatever route it is called. The ghost
\* fields record the route and how many registrations preceded the call.
Dispatch(route, type, error) ==
    LET call == HandleErrorCall(errorHandlers, type, error)
    IN  /\ toasts < MaxToasts
        /\ lastCall' = [route |-> route, regsBefore |-> Len(regHistory)] @@ call
        /\ toasts' = toasts + ToastsAdded(call.invoked, error)
        /\ UNCHANGED <<stage, isInitialized, errorHandlers, regHistory, pageRegs,
                       lastRegister, langVars, trVars, pdfVars>>

\* errorService.handleError(type, error), called by the page.
HandleError(type, error) ==
    /\ stage # "constructed"
    /\ Dispatch("direct", type, error)

\* window.onerror: handleError('global', error || new Error(message)).
\* `thrown` is the hook's fifth argument; a nullish one is replaced.
OnError(thrown) ==
    /\ isInitialized
    /\ Dispatch("onerror", "global", IF thrown \in Nullish THEN "Error" ELSE thrown)

\* window.onunhandledrejection: handleError('promise', event.reason).
OnUnhandledRejection(reason) ==
    /\ isInitialized
    /\ Dispatch("onunhandledrejection", "promise", reason)

\* The close button of a toast, or its 5 s timer: toast.remove().
ToastRemove ==
    /\ toasts > 0
    /\ toasts' = toasts - 1
    /\ UNCHANGED <<stage, isInitialized, errorHandlers, regHistory, pageRegs,
                   lastRegister, lastCall, langVars, trVars, pdfVars>>

NextError ==
    \/ ErrorServiceScript
    \/ InitErrorScript
    \/ \E t \in PageTypes, h \in PageHandlers \cup {NotAFunction} : RegisterHandler(t, h)
    \/ \E t \in ErrorTypes, e \in ErrorValues : HandleError(t, e)
    \/ \E e \in ErrorValues : OnError(e)
    \/ \E e \in ErrorValues : OnUnhandledRejection(e)
    \/ ToastRemove

(***************************************************************************)
(*                            LanguageService                              *)
(***************************************************************************)
\* this.supportedLanguages
supportedLanguages == <<"pt", "en", "es", "fr", "it", "pl">>
Supported == {supportedLanguages[i] : i \in 1..Len(supportedLanguages)}

\* localStorage.getItem of a key never set.
NoValue == "null"
\* What localStorage may hold when the page loads: nothing, an empty string, a
\* supported code, a code of no dictionary.
StoredValues == {NoValue, "", "es", "de"}
\* navigator.language: a supported and an unsupported locale.
Locales == {<<"it", "IT">>, <<"de">>}
\* The argument of initialize: omitted, or a code of no dictionary.
DefaultArgs == {"undefined", "de"}
\* The codes the page passes to setLanguage.
PageCodes == {"pt", "fr", "de"}
\* Every language code of the model: the keys this.translations may be read at.
Codes == Supported \cup {"de", ""}

\* The observer callbacks of the page: one that returns, one that throws;
\* and a value that is no function.
Callbacks == {"render", "broken"}
NotACallback == "notACallback"
CallbackThrows(cb) == cb = "broken"

\* navigator.language.split('-')[0]
PrimarySubtag(locale) == locale[1]

\* isLanguageSupported(lang), answering yes to every code.
IsLanguageSupportedAlways(lang) == TRUE

\* isLanguageSupported(lang): supportedLanguages.includes(lang)
IsLanguageSupported(lang) ==
    \E i \in 1..Len(supportedLanguages) : supportedLanguages[i] = lang

\* The truthiness of a string or null.
Truthy(v) == v # NoValue /\ v # ""

\* A default parameter: defaultLang = 'pt'.
DefaultLang(arg) == IF arg = "undefined" THEN "pt" ELSE arg

\* initialize's choice that looks at the browser locale before the stored value.
InitialLangBrowserFirst(savedLang, browserLang, defaultLang) ==
    IF IsLanguageSupported(browserLang) THEN browserLang
    ELSE IF Truthy(savedLang) THEN savedLang ELSE defaultLang

\* savedLang || (isLanguageSupported(browserLang) ? browserLang : defaultLang)
InitialLang(savedLang, browserLang, defaultLang) ==
    IF Truthy(savedLang) THEN savedLang
    ELSE IF IsLanguageSupported(browserLang) THEN browserLang ELSE defaultLang

\* setLanguage's test that never finds a dictionary missing.
NeedsLoadNever(tr, lang) == FALSE

\* !this.translations[lang]
NeedsLoad(tr, lang) == tr[lang] = "missing"

\* notifyObservers that stops at the first observer that throws.
RECURSIVE NotifyObserversNoCatch(_, _)
NotifyObserversNoCatch(obs, lang) ==
    IF obs = << >> THEN [notified |-> << >>, errorsLogged |-> 0, threw |-> FALSE]
    ELSE IF CallbackThrows(Head(obs))
         THEN [notified |-> <<[callback |-> Head(obs), lang |-> lang]>>,
               errorsLogged |-> 0, threw |-> TRUE]
         ELSE LET rest == NotifyObserversNoCatch(Tail(obs), lang)
              IN  [notified |-> <<[callback |-> Head(obs), lang |-> lang]>>
                                    \o rest.notified,
                   errorsLogged |-> rest.errorsLogged, threw |-> rest.threw]

\* notifyObservers(): forEach over the list, each call in its own try/catch.
\* The calls made, in order, the number of failures logged, and whether an
\* exception left the loop.
RECURSIVE NotifyObservers(_, _)
NotifyObservers(obs, lang) ==
    IF obs = << >> THEN [notified |-> << >>, errorsLogged |-> 0, threw |-> FALSE]
    ELSE LET rest == NotifyObservers(Tail(obs), lang)
         IN  [notified |-> <<[callback |-> Head(obs), lang |-> lang]>>
                               \o rest.notified,
              errorsLogged |-> rest.errorsLogged
                               + (IF CallbackThrows(Head(obs)) THEN 1 ELSE 0),
              threw |-> rest.threw]

\* observers.filter(obs => obs !== callback)
RECURSIVE Without(_, _)
Without(obs, cb) ==
    IF obs = << >> THEN << >>
    ELSE IF Head(obs) = cb THEN Without(Tail(obs), cb)
    ELSE <<Head(obs)>> \o Without(Tail(obs), cb)

NoSet == [caller |-> "none", code |-> "none", outcome |-> "none",
          notified |-> << >>, errorsLogged |-> 0]
NoRewrite == [lang |-> "none", dictionary |-> "none"]
NoInit == [pc |-> "idle", defaultLang |-> "none", loadFailed |-> FALSE,
           savedLang |-> "none", browserLang |-> "none",
           langBefore |-> "none", langAfter |-> "none"]

InitLanguage ==
    /\ currentLang = "pt"
    /\ translations = [l \in Codes |-> "missing"]
    /\ observers = << >>
    /\ documentLang = "none"
    /\ preferredLanguage \in StoredValues
    /\ navigatorLanguage \in Locales
    /\ tagsResolve \in BOOLEAN
    /\ initCall = NoInit
    /\ pendingInit = {}
    /\ pendingSet = [l \in Codes |-> 0]
    /\ lastSet = NoSet
    /\ domRewrite = NoRewrite

\* setLanguage(lang) from line 255 on, once the dictionary is there: the three
\* assignments, updateDOMTranslations (which throws when a tagged key lands on
\* a nested mapping), notifyObservers. `tr` is this.translations at that time.
ApplyLanguage(caller, lang, tr) ==
    LET run == NotifyObservers(observers, lang)
    IN  /\ currentLang' = lang
        /\ documentLang' = lang
        /\ preferredLanguage' = lang
        /\ domRewrite' = [lang |-> lang, dictionary |-> tr[lang]]
        /\ lastSet' = IF tagsResolve \/ tr[lang] = "missing"
                      THEN [caller |-> caller, code |-> lang,
                            outcome |-> IF run.threw THEN "rejected: observer threw"
                                        ELSE "resolved",
                            notified |-> run.notified,
                            errorsLogged |-> run.errorsLogged]
                      ELSE [caller |-> caller, code |-> lang,
                            outcome |-> "rejected: translate threw",
                            notified |-> << >>, errorsLogged |-> 0]

\* setLanguage(lang) rejecting at line 246.
RejectUnsupported(caller, lang) ==
    /\ lastSet' = [caller |-> caller, code |-> lang,
                   outcome |-> "rejected: unsupported",
                   notified |-> << >>, errorsLogged |-> 0]
    /\ UNCHANGED <<currentLang, documentLang, preferredLanguage, domRewrite>>

PendingCalls == LET RECURSIVE Sum(_)
                    Sum(S) == IF S = {} THEN 0
                              ELSE LET l == CHOOSE x \in S : TRUE
                                   IN  pendingSet[l] + Sum(S \ {l})
                IN  Sum(Codes)

\* initialize(defaultLang), up to the await of Promise.all: one fetch per
\* supported language is issued.
Initialize(arg) ==
    /\ initCall.pc = "idle"
    /\ initCall' = [initCall EXCEPT !.pc = "loading", !.defaultLang = DefaultLang(arg)]
    /\ pendingInit' = Supported
    /\ UNCHANGED <<currentLang, translations, observers, documentLang,
                   preferredLanguage, navigatorLanguage, tagsResolve, pendingSet,
                   lastSet, domRewrite, errVars, trVars, pdfVars>>

\* A fetch of initialize answers 2xx with a JSON object: loadTranslations
\* stores it. With the last one, Promise.all resolves and initialize goes on
\* in the same turn: it chooses the language and calls setLanguage, which runs
\* to its end without suspending, every dictionary being there.
InitializeLoaded(lang) ==
    /\ lang \in pendingInit
    /\ pendingInit' = pendingInit \ {lang}
    /\ translations' = [translations EXCEPT ![lang] = "loaded"]
    /\ IF pendingInit' = {} /\ initCall.pc = "loading"
       THEN LET browserLang == PrimarySubtag(navigatorLanguage)
                initialLang == InitialLang(preferredLanguage, browserLang,
                                           initCall.defaultLang)
                snapshot == [initCall EXCEPT !.savedLang = preferredLanguage,
                                             !.browserLang = browserLang,
                                             !.langBefore = currentLang]
            IN  IF ~IsLanguageSupported(initialLang)
                THEN /\ RejectUnsupported("initialize", initialLang)
                     /\ initCall' = [snapshot EXCEPT !.pc = "rejected",
                                                     !.langAfter = currentLang]
                ELSE IF NeedsLoad(translations', initialLang)
                THEN \* not reachable: every dictionary has just been stored
                     /\ initCall' = [snapshot EXCEPT !.pc = "rejected",
                                                     !.langAfter = currentLang]
                     /\ UNCHANGED <<currentLang, documentLang, preferredLanguage,
                                    domRewrite, lastSet>>
                ELSE /\ ApplyLanguage("initialize", initialLang, translations')
                     /\ initCall' = [snapshot EXCEPT
                                        !.pc = IF lastSet'.outcome = "resolved"
                                               THEN "resolved" ELSE "rejected",
                                        !.langAfter = currentLang']
       ELSE UNCHANGED <<currentLang, documentLang, preferredLanguage, domRewrite,
                        lastSet, initCall>>
    /\ UNCHANGED <<observers, navigatorLanguage, tagsResolve, pendingSet, errVars, trVars, pdfVars>>

\* A fetch of initialize fails (transport, or a non-2xx answer):
\* loadTranslations rethrows, Promise.all rejects at the first failure and so
\* does initialize; the other fetches go on.
InitializeLoadFailed(lang) ==
    /\ lang \in pendingInit
    /\ pendingInit' = pendingInit \ {lang}
    /\ initCall' = IF initCall.pc = "loading"
                   THEN [initCall EXCEPT !.pc = "rejected", !.loadFailed = TRUE]
                   ELSE initCall
    /\ UNCHANGED <<currentLang, translations, observers, documentLang,
                   preferredLanguage, navigatorLanguage, tagsResolve, pendingSet,
                   lastSet, domRewrite, errVars, trVars, pdfVars>>

\* setLanguage(lang), called by the page, up to its first suspension or its end.
SetLanguage(lang) ==
    /\ IF ~IsLanguageSupported(lang)
       THEN /\ RejectUnsupported("page", lang)
            /\ UNCHANGED pendingSet
       ELSE IF NeedsLoad(translations, lang)
       THEN /\ PendingCalls < MaxPendingCalls
            /\ pendingSet' = [pendingSet EXCEPT ![lang] = @ + 1]
            /\ UNCHANGED <<currentLang, documentLang, preferredLanguage,
                           domRewrite, lastSet>>
       ELSE /\ ApplyLanguage("page", lang, translations)
            /\ UNCHANGED pendingSet
    /\ UNCHANGED <<translations, observers, navigatorLanguage, tagsResolve,
                   initCall, pendingInit, errVars, trVars, pdfVars>>

\* The fetch of a suspended setLanguage answers 2xx: loadTranslations stores
\* the dictionary and setLanguage goes on to its end in the same turn.
SetLanguageLoaded(lang) ==
    /\ pendingSet[lang] > 0
    /\ pendingSet' = [pendingSet EXCEPT ![lang] = @ - 1]
    /\ translations' = [translations EXCEPT ![lang] = "loaded"]
    /\ ApplyLanguage("page", lang, translations')
    /\ UNCHANGED <<observers, navigatorLanguage, tagsResolve, initCall,
                   pendingInit, errVars, trVars, pdfVars>>

\* The fetch of a suspended setLanguage fails: setLanguage rejects at line 270.
SetLanguageLoadFailed(lang) ==
    /\ pendingSet[lang] > 0
    /\ pendingSet' = [pendingSet EXCEPT ![lang] = @ - 1]
    /\ lastSet' = [caller |-> "page", code |-> lang,
                   outcome |-> "rejected: fetch failed",
                   notified |-> << >>, errorsLogged |-> 0]
    /\ UNCHANGED <<currentLang, translations, observers, documentLang,
                   preferredLanguage, navigatorLanguage, tagsResolve, initCall,
                   pendingInit, domRewrite, errVars, trVars, pdfVars>>

\* addObserver(callback)
AddObserver(cb) ==
    /\ Len(observers) < MaxObservers
    /\ observers' = IF cb = NotACallback THEN observers ELSE Append(observers, cb)
    /\ UNCHANGED <<currentLang, translations, documentLang, preferredLanguage,
                   navigatorLanguage, tagsResolve, initCall, pendingInit,
                   pendingSet, lastSet, domRewrite, errVars, trVars, pdfVars>>

\* removeObserver(callback)
RemoveObserver(cb) ==
    /\ observers' = Without(observers, cb)
    /\ UNCHANGED <<currentLang, translations, documentLang, preferredLanguage,
                   navigatorLanguage, tagsResolve, initCall, pendingInit,
                   pendingSet, lastSet, domRewrite, errVars, trVars, pdfVars>>

\* The page initializes the service and switches languages meanwhile.
NextLanguage ==
    \/ \E arg \in DefaultArgs : Initialize(arg)
    \/ \E l \in Supported : InitializeLoaded(l)
    \/ \E l \in Supported : InitializeLoadFailed(l)
    \/ \E code \in PageCodes : SetLanguage(code)
    \/ \E l \in PageCodes : SetLanguageLoaded(l)
    \/ \E l \in PageCodes : SetLanguageLoadFailed(l)

\* The page registers observers and switches languages.
NextObservers ==
    \/ \E code \in PageCodes : SetLanguage(code)
    \/ \E l \in PageCodes : SetLanguageLoaded(l)
    \/ \E l \in PageCodes : SetLanguageLoadFailed(l)
    \/ \E cb \in Callbacks \cup {NotACallback} : AddObserver(cb)
    \/ \E cb \in Callbacks : RemoveObserver(cb)

(***************************************************************************)
(*                       LanguageService.translate                         *)
(***************************************************************************)
\* A string is a sequence of tokens: a run of text, or a {{name}} placeholder.
Text(t) == [kind |-> "text", text |-> t]
Placeholder(n) == [kind |-> "placeholder", name |-> n]

\* JSON values: strings and nested mappings. undefined is the absent value.
Undefined == [type |-> "undefined"]
String(tokens) == [type |-> "string", tokens |-> tokens]
Object(entries) == [type |-> "object", entries |-> entries]
\* A number, held as its decimal text.
Number(text) == [type |-> "number", text |-> text]

\* A key is a sequence of characters; a property name is one too.
KeyCharacters == {"g", "h", "."}
Names == {"name", "other"}

\* The dictionaries a language file may hold:
\*   {"g": {"h": "Hi {{name}}"}, "h": ""}
\*   {"g": "{{name}} and {{other}} and {{name}}", "h": "Hello"}
\*   {}
Dictionaries ==
    { Object([k \in {<<"g">>, <<"h">>} |->
                IF k = <<"g">>
                THEN Object([h \in {<<"h">>} |->
                               String(<<Text("Hi "), Placeholder("name")>>)])
                ELSE String(<< >>)]),
      Object([k \in {<<"g">>, <<"h">>} |->
                IF k = <<"g">>
                THEN String(<<Placeholder("name"), Text(" and "),
                              Placeholder("other"), Text(" and "),
                              Placeholder("name")>>)
                ELSE String(<<Text("Hello")>>)]),
      Object([k \in {} |-> Undefined]) }

\* The keys given to translate: "g", "g.h", "h.", "..", ...
Keys == UNION {[1..n -> KeyCharacters] : n \in 1..MaxKeyLen}

\* The params objects: some names, each with a string or a number.
ParamValues == {String(<<Text("Ana")>>), String(<< >>), Number("0")}
Params == UNION {[S -> ParamValues] : S \in SUBSET Names}

\* key.split('.'): the runs of characters between the dots, empty ones included.
RECURSIVE Split(_)
Split(key) ==
    IF \A i \in 1..Len(key) : key[i] # "." THEN <<key>>
    ELSE LET dot == CHOOSE i \in 1..Len(key) :
                        key[i] = "." /\ \A j \in 1..(i - 1) : key[j] # "."
         IN  <<SubSeq(key, 1, dot - 1)>> \o Split(SubSeq(key, dot + 1, Len(key)))

\* JavaScript truthiness of a value.
IsTruthy(v) ==
    CASE v.type = "undefined" -> FALSE
      [] v.type = "string" -> v.tokens # << >>
      [] v.type = "number" -> v.text # "0"
      [] OTHER -> TRUE

\* translation?.[k]: undefined on undefined, the own property of a mapping;
\* a string has none of the model's names as a property.
Get(v, k) ==
    IF v.type = "object" /\ k \in DOMAIN v.entries THEN v.entries[k]
    ELSE Undefined

\* params[param]
ParamGet(params, name) ==
    IF name \in DOMAIN params THEN params[name] ELSE Undefined

\* String(value), as the tokens of the result.
ToTokens(v) == IF v.type = "string" THEN v.tokens ELSE <<Text(v.text)>>

\* The loop of lines 284-290: the value reached, or "missing" at the first
\* falsy one.
RECURSIVE Walk(_, _)
Walk(v, keys) ==
    IF keys = << >> THEN [missing |-> FALSE, value |-> v]
    ELSE LET next == Get(v, Head(keys))
         IN  IF ~IsTruthy(next) THEN [missing |-> TRUE, value |-> next]
             ELSE Walk(next, Tail(keys))

\* The replace callback of line 294: params[param] || `{{${param}}}`
Replacement(params, name) ==
    LET v == ParamGet(params, name)
    IN  IF IsTruthy(v) THEN ToTokens(v) ELSE <<Placeholder(name)>>

\* translation.replace(/\{\{(\w+)\}\}/g, ...): every placeholder, left to right.
RECURSIVE Replace(_, _)
Replace(tokens, params) ==
    IF tokens = << >> THEN << >>
    ELSE (IF Head(tokens).kind = "placeholder"
          THEN Replacement(params, Head(tokens).name)
          ELSE <<Head(tokens)>>) \o Replace(Tail(tokens), params)

\* translate(key, params) on the dictionary `dict`.
TranslateCall(dict, key, params) ==
    LET walked == Walk(dict, Split(key))
    IN  IF walked.missing
        THEN [outcome |-> "returned", warned |-> TRUE,
              value |-> [type |-> "key", key |-> key]]
        ELSE IF walked.value.type # "string"
        THEN \* translation.replace is not a function
             [outcome |-> "threw", warned |-> FALSE, value |-> Undefined]
        ELSE [outcome |-> "returned", warned |-> FALSE,
              value |-> String(Replace(walked.value.tokens, params))]

NoTranslate == [dictionary |-> Undefined, key |-> << >>, params |-> << >>,
                outcome |-> "none", warned |-> FALSE, value |-> Undefined]

InitTranslate ==
    /\ dictionary = Undefined
    /\ lastTranslate = NoTranslate

\* loadTranslations stores the dictionary of the current language.
StoreDictionary(d) ==
    /\ dictionary' = d
    /\ UNCHANGED <<lastTranslate, errVars, langVars, pdfVars>>

\* translate(key, params), called by the page or by updateDOMTranslations.
Translate(key, params) ==
    /\ lastTranslate' = [dictionary |-> dictionary, key |-> key, params |-> params]
                            @@ TranslateCall(dictionary, key, params)
    /\ UNCHANGED <<dictionary, errVars, langVars, pdfVars>>

NextTranslate ==
    \/ \E d \in Dictionaries : StoreDictionary(d)
    \/ \E key \in Keys, params \in Params : Translate(key, params)

(***************************************************************************)
(*                              PDFService                                 *)
(***************************************************************************)
Null == [node |-> "null"]

\* The elements given to the service: with or without content, shown or not,
\* with or without a size, and with images that are absent, complete or still
\* loading. An element that is not displayed has no size.
Elements ==
    {e \in [node : {"element"}, empty : BOOLEAN, display : {"block", "none"},
            visibility : {"visible", "hidden"}, offsetWidth : {0, 100},
            offsetHeight : {0, 50}, images : {"none", "complete", "loading"}] :
        e.display = "none" => (e.offsetWidth = 0 /\ e.offsetHeight = 0)}

NoPdfCall == [op |-> "none", element |-> Null, pc |-> "idle",
              rendererInvoked |-> FALSE, error |-> "none"]

InitPDF == pdfCall = NoPdfCall

PdfIdle == pdfCall.pc \in {"idle", "resolved", "rejected"}

\* waitForImages(element): resolved at once when every image is complete.
ImagesPending(e) == e.images = "loading"

\* preGenerationChecks(element), up to its await: the error it throws, or "none".
PreGenerationError(e) ==
    IF e = Null THEN "TypeError"
    ELSE IF e.empty THEN "Element is empty"
    ELSE IF e.display = "none" \/ e.visibility = "hidden"
         THEN "Element is not visible"
    ELSE IF e.offsetWidth = 0 \/ e.offsetHeight = 0
         THEN "Element has no dimensions"
    ELSE "none"

\* generatePDF(element, customOptions), up to its first suspension: the null
\* check, the clone, waitForImages on the clone, then html2pdf.
GeneratePDF(e) ==
    /\ PdfIdle
    /\ pdfCall' =
         IF e = Null
         THEN [op |-> "generatePDF", element |-> e, pc |-> "rejected",
               rendererInvoked |-> FALSE,
               error |-> "No element provided for PDF generation"]
         ELSE IF ImagesPending(e)
         THEN [op |-> "generatePDF", element |-> e, pc |-> "waitingImages",
               rendererInvoked |-> FALSE, error |-> "none"]
         ELSE [op |-> "generatePDF", element |-> e, pc |-> "rendering",
               rendererInvoked |-> TRUE, error |-> "none"]
    /\ UNCHANGED <<errVars, langVars, trVars>>

\* savePDF(element, filename, customOptions), up to its first suspension:
\* preGenerationChecks, then html2pdf.
SavePDF(e) ==
    /\ PdfIdle
    /\ pdfCall' =
         IF PreGenerationError(e) # "none"
         THEN [op |-> "savePDF", element |-> e, pc |-> "rejected",
               rendererInvoked |-> FALSE,
               error |-> "PDF save failed: " \o PreGenerationError(e)]
         ELSE IF ImagesPending(e)
         THEN [op |-> "savePDF", element |-> e, pc |-> "waitingImages",
               rendererInvoked |-> FALSE, error |-> "none"]
         ELSE [op |-> "savePDF", element |-> e, pc |-> "rendering",
               rendererInvoked |-> TRUE, error |-> "none"]
    /\ UNCHANGED <<errVars, langVars, trVars>>

\* img.onload of the last pending image: waitForImages resolves and the call
\* goes on to html2pdf.
ImagesLoaded ==
    /\ pdfCall.pc = "waitingImages"
    /\ pdfCall' = [pdfCall EXCEPT !.pc = "rendering", !.rendererInvoked = TRUE]
    /\ UNCHANGED <<errVars, langVars, trVars>>

\* img.onerror: waitForImages rejects and the call rethrows with its prefix.
ImageFailed ==
    /\ pdfCall.pc = "waitingImages"
    /\ pdfCall' = [pdfCall EXCEPT
                     !.pc = "rejected",
                     !.error = IF pdfCall.op = "generatePDF"
                               THEN "PDF generation failed: Failed to load image"
                               ELSE "PDF save failed: Failed to load image"]
    /\ UNCHANGED <<errVars, langVars, trVars>>

\* html2pdf's promise resolves.
RenderDone ==
    /\ pdfCall.pc = "rendering"
    /\ pdfCall' = [pdfCall EXCEPT !.pc = "resolved"]
    /\ UNCHANGED <<errVars, langVars, trVars>>

\* html2pdf's promise rejects: the call rethrows with its prefix.
RenderFailed ==
    /\ pdfCall.pc = "rendering"
    /\ pdfCall' = [pdfCall EXCEPT
                     !.pc = "rejected",
                     !.error = IF pdfCall.op = "generatePDF"
                               THEN "PDF generation failed: renderer"
                               ELSE "PDF save failed: renderer"]
    /\ UNCHANGED <<errVars, langVars, trVars>>

NextPDF ==
    \/ \E e \in Elements \cup {Null} : GeneratePDF(e)
    \/ \E e \in Elements \cup {Null} : SavePDF(e)
    \/ ImagesLoaded
    \/ ImageFailed
    \/ RenderDone
    \/ RenderFailed

(***************************************************************************)
(*                             Specifications                              *)
(***************************************************************************)
Init == InitError /\ InitLanguage /\ InitTranslate /\ InitPDF

\* The same, in one browser: nothing stored, a locale, a page whose tagged
\* keys resolve. The services other than the LanguageService read none of it.
InitOneBrowser ==
    /\ Init
    /\ preferredLanguage = NoValue
    /\ navigatorLanguage = <<"it", "IT">>
    /\ tagsResolve

SpecError == InitOneBrowser /\ [][NextError]_vars

SpecLanguage == Init /\ [][NextLanguage]_vars

SpecObservers == Init /\ [][NextObservers]_vars

SpecTranslate == InitOneBrowser /\ [][NextTranslate]_vars

SpecPDF == InitOneBrowser /\ [][NextPDF]_vars

(***************************************************************************)
(*                      Properties of the ErrorService                     *)
(***************************************************************************)
\* The handler of the last registration for `type` among the registrations
\* `hist`, NoHandler when there is none.
RECURSIVE LastRegistered(_, _)
LastRegistered(hist, type) ==
    IF hist = << >> THEN NoHandler
    ELSE IF hist[Len(hist)].type = type THEN hist[Len(hist)].handler
    ELSE LastRegistered(SubSeq(hist, 1, Len(hist) - 1), type)

RegistrationsBefore(call) == SubSeq(regHistory, 1, call.regsBefore)

RegistrationsFor(hist, type) ==
    Cardinality({i \in 1..Len(hist) : hist[i].type = type})

\* C1: a handleError(T, error) whose type T has a registration invokes the
\* handler most recently registered for T, once, and nothing else (not the
\* default handler), provided that handler does not throw on the error.
C1_LastRegistrationWins ==
    lastCall.type # "none" =>
        LET h == LastRegistered(RegistrationsBefore(lastCall), lastCall.type)
        IN  (h # NoHandler /\ ~HandlerThrows(h, lastCall.error))
                => lastCall.invoked = <<h>>

\* C1 witness: 'api' was registered three times (twice by the boot scripts,
\* then by the page) and an 'api' error went to the page's handler alone.
C1_Witness ==
    /\ lastCall.type = "api"
    /\ RegistrationsFor(RegistrationsBefore(lastCall), "api") >= 3
    /\ lastCall.invoked = <<"quiet">>

\* C2 (as claimed): when the registered handler throws, the failure is logged,
\* the default handler then runs once, to completion, with the same error, and
\* logError is written afterwards.
C2_FallbackThenLog ==
    (/\ lastCall.type # "none"
     /\ Head(lastCall.invoked) # DefaultHandler
     /\ HandlerThrows(Head(lastCall.invoked), lastCall.error))
        => /\ lastCall.handlerErrorLogged
           /\ lastCall.invoked = <<Head(lastCall.invoked), DefaultHandler>>
           /\ ~HandlerThrows(DefaultHandler, lastCall.error)
           /\ lastCall.logged

\* C3 (as claimed): no handleError call lets an exception escape, whatever the
\* type and whatever value the hooks deliver.
C3_HandleErrorNeverThrows ==
    lastCall.type # "none" => lastCall.outcome = "returned"

(***************************************************************************)
(*                    Properties of the LanguageService                    *)
(***************************************************************************)
\* C4: a setLanguage(code) with a code outside the supported list rejects and
\* changes nothing: not the current language, the stored preference, the
\* document language, the dictionaries or the observer list; it issues no
\* fetch, rewrites no DOM node and notifies no observer.
C4_UnsupportedChangesNothing ==
    [][(\E code \in PageCodes \ Supported : SetLanguage(code))
          => /\ lastSet'.outcome = "rejected: unsupported"
             /\ lastSet'.notified = << >>
             /\ UNCHANGED <<currentLang, preferredLanguage, documentLang,
                            translations, observers, pendingSet, pendingInit,
                            domRewrite>>]_vars

\* C4 witness: an unsupported code was refused while French was current, an
\* observer was registered and another setLanguage was awaiting its fetch.
C4_Witness ==
    /\ lastSet.outcome = "rejected: unsupported"
    /\ lastSet.code \notin Supported
    /\ currentLang = "fr"
    /\ preferredLanguage = "fr"
    /\ observers # << >>
    /\ PendingCalls > 0

\* C5: whenever updateDOMTranslations has run, it saw the dictionary of the
\* language then current, and from the first setLanguage that gets that far
\* the current language has its dictionary loaded.
C5_RewriteSeesDictionary ==
    domRewrite.lang # "none" =>
        /\ domRewrite.dictionary = "loaded"
        /\ translations[currentLang] = "loaded"

\* C5 witness: the page switched to French while initialize was still waiting
\* for some of its six fetches, others having completed or failed.
C5_Witness ==
    /\ domRewrite.lang = "fr"
    /\ currentLang = "fr"
    /\ pendingInit # {}
    /\ pendingInit # Supported

\* The initial language as the claim words it: the stored value if one
\* exists, else the browser's primary subtag if supported, else the default.
ClaimedSelection(savedLang, browserLang, defaultLang) ==
    IF savedLang # NoValue THEN savedLang
    ELSE IF browserLang \in Supported THEN browserLang ELSE defaultLang

\* The same with "exists" read as "is a non-empty string".
NonEmptySelection(savedLang, browserLang, defaultLang) ==
    IF savedLang \notin {NoValue, ""} THEN savedLang
    ELSE IF browserLang \in Supported THEN browserLang ELSE defaultLang

InitializeEnded == initCall.pc \in {"resolved", "rejected"}

\* C7 (as claimed): when every load succeeds, initialize completes with the
\* current language equal to the claimed selection, whatever the stored value,
\* the browser locale and the default are.
C7_SelectionApplied ==
    (InitializeEnded /\ ~initCall.loadFailed) =>
        /\ initCall.pc = "resolved"
        /\ initCall.langAfter = ClaimedSelection(initCall.savedLang,
                                                 initCall.browserLang,
                                                 initCall.defaultLang)

\* C7 (amended): when every load succeeds, initialize ends with the current
\* language equal to the selection (a non-empty stored value, else the
\* supported browser subtag, else the default) if that selection is a
\* supported language, resolving unless the DOM rewriting throws; otherwise it
\* rejects and leaves the current language as it was.
C7_SupportedSelectionApplied ==
    (InitializeEnded /\ ~initCall.loadFailed) =>
        LET sel == NonEmptySelection(initCall.savedLang, initCall.browserLang,
                                     initCall.defaultLang)
        IN  IF sel \in Supported
            THEN /\ initCall.langAfter = sel
                 /\ tagsResolve => initCall.pc = "resolved"
            ELSE /\ initCall.pc = "rejected"
                 /\ initCall.langAfter = initCall.langBefore

\* C7 witness: the page switched to French while initialize was loading, which
\* stored "fr"; the browser locale is the supported "it"; initialize resolved
\* with the stored language, not the browser's.
C7_Witness ==
    /\ initCall.pc = "resolved"
    /\ initCall.savedLang = "fr"
    /\ initCall.browserLang = "it"
    /\ initCall.langBefore = "fr"
    /\ initCall.langAfter = "fr"

\* The notifications a correct run over `obs` makes for `lang`.
ExpectedNotified(obs, lang) ==
    [i \in 1..Len(obs) |-> [callback |-> obs[i], lang |-> lang]]

ThrowingObservers(obs) ==
    Cardinality({i \in 1..Len(obs) : CallbackThrows(obs[i])})

\* C8: a setLanguage that gets past its dictionary load calls every entry of
\* the observer list once, in registration order, with the new language; a
\* throwing observer is logged, stops no later observer and does not make
\* setLanguage fail (setLanguage resolves whenever the DOM rewriting did not
\* throw).
C8_NotifyAllInOrder ==
    [][\A code \in PageCodes \cap Supported :
          ((translations[code] = "loaded" /\ SetLanguage(code))
              \/ SetLanguageLoaded(code))
          => /\ tagsResolve => lastSet'.outcome = "resolved"
             /\ lastSet'.outcome = "resolved" =>
                   /\ lastSet'.code = code
                   /\ currentLang' = code
                   /\ lastSet'.notified = ExpectedNotified(observers, code)
                   /\ lastSet'.errorsLogged = ThrowingObservers(observers)]_vars

\* C8 witness: a throwing observer registered before a working one; both were
\* called, in that order, and setLanguage resolved.
C8_Witness ==
    /\ lastSet.outcome = "resolved"
    /\ lastSet.code = "fr"
    /\ lastSet.notified = <<[callback |-> "broken", lang |-> "fr"],
                            [callback |-> "render", lang |-> "fr"]>>
    /\ lastSet.errorsLogged = 1

(***************************************************************************)
(*                        Properties of translate                          *)
(***************************************************************************)
\* The value at the end of the path `keys` from `v` when every segment is
\* present, whatever that value is; undefined when a segment is absent.
RECURSIVE NestedValue(_, _)
NestedValue(v, keys) ==
    IF keys = << >> THEN v
    ELSE IF v.type = "object" /\ Head(keys) \in DOMAIN v.entries
         THEN NestedValue(v.entries[Head(keys)], Tail(keys))
         ELSE Undefined

\* C9 (as claimed): translate(key) never throws; it returns the nested value
\* when every segment is present (an empty string included), and otherwise
\* returns the literal key and warns.
C9_NestedValueOrKey ==
    (lastTranslate.outcome # "none" /\ DOMAIN lastTranslate.params = {}) =>
        LET nested == NestedValue(lastTranslate.dictionary, Split(lastTranslate.key))
        IN  /\ lastTranslate.outcome = "returned"
            /\ IF nested.type = "string"
               THEN /\ lastTranslate.value = nested
                    /\ ~lastTranslate.warned
               ELSE /\ lastTranslate.value = [type |-> "key", key |-> lastTranslate.key]
                    /\ lastTranslate.warned

\* The text the claim expects for a template: each placeholder whose name is a
\* key of params replaced by String(params[name]), every other token kept.
RECURSIVE ExpectedText(_, _)
ExpectedText(tokens, params) ==
    IF tokens = << >> THEN << >>
    ELSE (IF Head(tokens).kind = "placeholder" /\ Head(tokens).name \in DOMAIN params
          THEN ToTokens(params[Head(tokens).name])
          ELSE <<Head(tokens)>>) \o ExpectedText(Tail(tokens), params)

\* C10 (as claimed): when translate substitutes into a dictionary string, each
\* {{x}} with x a key of params becomes params[x], whatever its value (0 or
\* an empty string included), and each {{y}} with y absent from params stays.
C10_SubstitutesEveryParam ==
    (lastTranslate.outcome = "returned" /\ lastTranslate.value.type = "string") =>
        LET nested == NestedValue(lastTranslate.dictionary, Split(lastTranslate.key))
        IN  lastTranslate.value.tokens
                = ExpectedText(nested.tokens, lastTranslate.params)

(***************************************************************************)
(*                      Properties of the PDFService                       *)
(***************************************************************************)
\* C6 (as claimed): a generatePDF on an element whose width or height is zero
\* fails, and html2pdf is never invoked on that call.
C6_ZeroSizeNeverRendered ==
    (/\ pdfCall.op = "generatePDF"
     /\ pdfCall.element # Null
     /\ (pdfCall.element.offsetWidth = 0 \/ pdfCall.element.offsetHeight = 0))
        => /\ ~pdfCall.rendererInvoked
           /\ pdfCall.pc # "resolved"

=============================================================================
